---- MODULE Spec2Model ----
(***************************************************************************)
(* keep-notes: the note editor (manual save, version log, debounced        *)
(* auto-save) and the share-link resolver with its privileged fetch,       *)
(* modelled from the TypeScript sources and the SQL migrations.            *)
(*                                                                         *)
(* Every backend call (a supabase request) is one atomic step; an `await`  *)
(* is a point where other handlers may run.  A React state change, the     *)
(* render it causes and the effects of that render are one step.           *)
(***************************************************************************)
EXTENDS Integers, Sequences, FiniteSets, TLC

VARIABLES
    notes,      \* table notes: NoteIds -> row
    versions,   \* table note_versions: NoteIds -> sequence of rows, in insertion order
    sess,       \* the state of each mounted NoteEditor
    timers,     \* the pending setTimeout callbacks of each NoteEditor
    hist,       \* history of the run (what happened so far), read by the properties only
    links,      \* table shared_notes: LinkIds -> row
    now,        \* the clock
    res,        \* the state of the SharedNote page
    calls,      \* the invocations of get-shared-note, one per caller
    direct,     \* the last response to a caller outside the page
    dlg,        \* sharedLinks of the ShareNoteDialog: what it lists of each link
    index,      \* `notes` of the Index page: the ids of the notes it lists
    trash,      \* `notes` of the Trash page: the ids of the notes it lists
    media,      \* table note_media: MediaIds -> row
    storage,    \* the storage buckets: the <<bucket, path>> of every blob
    tags,       \* table tags: TagIds -> row
    note_tags,  \* table note_tags: how many rows each <<note_id, tag_id>> has
    pd,         \* the run of Trash.permanentlyDelete
    up,         \* the run of NoteEditor.handleFileUpload
    toast,      \* the last toast.error shown ("" when none was)
    issued,     \* the blobs whose removal permanentlyDelete has requested so far
    toggling    \* the runs of toggleLinkStatus and of the loadSharedLinks they start

vars == <<notes, versions, sess, timers, hist, links, now, res, calls, direct, dlg,
          index, trash, media, storage, tags, note_tags, pd, up, toast, issued,
          toggling>>

\* what the editor leaves alone, and what the share links leave alone
shareVars == <<links, now, res, calls, direct, dlg, toggling>>
editorVars == <<versions, sess, timers, hist>>
\* the lists of the two pages, and the media, the tags and what runs on them
listVars == <<index, trash>>
mediaVars == <<media, storage, tags, note_tags, pd, up, toast, issued>>
trashVars == <<listVars, mediaVars>>

----------------------------------------------------------------------------
(* Bounds of the model *)

\* manual saves started per run (caps the length of the version log)
MaxSaves == 2

\* views of a link per run
MaxViews == 2
\* runs of toggleLinkStatus under way together
MaxToggles == 2
\* the clock runs from 0 to MaxTime
MaxTime == 2

NoteIds  == {"n1"}
LinkIds  == {"l1"}
\* the runs of handleUnlock that can be under way together
Runs == {"u1", "u2"}
\* who invokes get-shared-note: loadSharedNote, a run of handleUnlock, or
\* a caller outside the page
PageCallers == {"entry"} \cup Runs
Callers == PageCallers \cup {"direct"}
\* the password of a protected link, and what a visitor types
OwnerPassword == "pw"
Passwords == {"pw", "bad"}
\* expirationDays of the dialog (at least 1)
Days == {1}
Sessions == {"e1", "e2"}
\* what the user types in the content field; the title field is left empty
\* ("" in the editor, NULL in the tables), so every row carries a NULL title
Contents == {"c0", "c1"}

\* SQL NULL / JS null / undefined
NULL == "NULL"

\* `x || null` of handleSave and handleAutoSave
OrNull(x) == IF x = "" THEN NULL ELSE x
\* `x || ""` of loadNote
OrEmpty(x) == IF x = NULL THEN "" ELSE x

----------------------------------------------------------------------------
(* Tables *)

\* a nullable timestamp is <<>> (NULL) or <<t>>
NoTime == <<>>

NoRow ==
    [exists |-> FALSE, title |-> NULL, content |-> NULL, deleted_at |-> NoTime,
     updated_at |-> 0]

\* the trigger update_notes_updated_at: BEFORE UPDATE, NEW.updated_at = now()
update_updated_at_column(row, t) == [row EXCEPT !.updated_at = t]

\* Index.loadNotes: select * from notes, every row of the user (no filter on
\* deleted_at)
LoadNotes(N) == {n \in DOMAIN N : N[n].exists}

\* Trash.loadDeletedNotes: the rows of the user whose deleted_at is not null
LoadDeletedNotes(N) == {n \in DOMAIN N : N[n].exists /\ N[n].deleted_at # NoTime}

\* highest version_number of a note: order('version_number', desc).limit(1)
RECURSIVE MaxVersionNumber(_)
MaxVersionNumber(vs) ==
    IF vs = <<>> THEN 0
    ELSE LET m == MaxVersionNumber(Tail(vs))
         IN IF Head(vs).version_number > m THEN Head(vs).version_number ELSE m

\* a variant that numbers a version as the latest one: C3 does not hold of it
SameVersionNumber(latestVersion) ==
    IF latestVersion = <<>> THEN 1 ELSE latestVersion[1]

\* (latestVersion?.version_number || 0) + 1; the data of the read is <<>> (null)
\* when it failed or found no row, and <<k>> when the latest version_number is k
NextVersionNumber(latestVersion) ==
    (IF latestVersion = <<>> THEN 0 ELSE latestVersion[1]) + 1

----------------------------------------------------------------------------
(* NoteEditor: React state, effects *)

\* the data of a select that failed or found no row
NoData == [found |-> FALSE, title |-> NULL, content |-> NULL]

\* one run of handleSave: where it is, the props and state its closure holds
\* (noteId, title, content), its locals, and the result of the note_versions
\* insert, which the code awaits and drops ("none": no insert was made)
IdleSave == [pc |-> "idle", noteId |-> NULL, title |-> "", content |-> "",
             currentNote |-> NoData, nextVersionNumber |-> 0, insert |-> "none"]

InitSession == [open |-> FALSE, noteId |-> NULL, title |-> "", content |-> "",
                hasUnsavedChanges |-> FALSE, loading |-> FALSE,
                loadPending |-> NULL,
                save |-> IdleSave]

\* A pending timer is the callback setTimeout was given, with the values its
\* closure holds, and `cur`: whether the autoSaveTimeout state holds its handle.
\* a variant that cancels nothing: C14 does not hold of it
KeepTimeout(T) == T
\* clearTimeout(autoSaveTimeout) removes the timer the state refers to, if it
\* is still pending.
ClearTimeout(T) == {t \in T : ~t.cur}

\* setAutoSaveTimeout(timeout): the state now refers to the new timer only
SetAutoSaveTimeout(T, cb) == {[t EXCEPT !.cur = FALSE] : t \in T} \cup {cb}

\* The auto-save effect, run because title, content or hasUnsavedChanges changed.
\* The cleanup of the previous run goes first: it clears the handle which that
\* run read from state, the one its own body had cleared already, so it
\* removes no pending timer.  The callback closes over the values of this render.
AutoSaveEffect(e, T) ==
    IF ~e.open \/ ~e.hasUnsavedChanges
    THEN [e |-> e, T |-> T]
    ELSE LET cb == [cur |-> TRUE, noteId |-> e.noteId, title |-> e.title,
                    content |-> e.content, loading |-> e.loading]
         IN [e |-> e, T |-> SetAutoSaveTimeout(ClearTimeout(T), cb)]

\* The track-changes effect, run because title, content or open changed.
TrackChanges(e) ==
    IF e.open /\ (e.title # "" \/ e.content # "")
    THEN [e EXCEPT !.hasUnsavedChanges = TRUE]
    ELSE e

\* A render in which title or content changed: both effects run, in source order,
\* and the auto-save effect runs again if hasUnsavedChanges changed.
AfterTextChange(e, T) ==
    LET p1 == AutoSaveEffect(e, T)
        e2 == TrackChanges(p1.e)
    IN IF e2.hasUnsavedChanges # p1.e.hasUnsavedChanges
       THEN AutoSaveEffect(e2, p1.T)
       ELSE [e |-> e2, T |-> p1.T]

\* A render in which open changed (title and content did not): only the
\* track-changes effect has a changed dependency.
AfterOpenChange(e, T) ==
    LET e2 == TrackChanges(e)
    IN IF e2.hasUnsavedChanges # e.hasUnsavedChanges
       THEN AutoSaveEffect(e2, T)
       ELSE [e |-> e2, T |-> T]

\* A render in which only hasUnsavedChanges changed.
AfterFlagChange(e, T) == AutoSaveEffect(e, T)

----------------------------------------------------------------------------
(* Initial state: no note yet, both editors mounted and closed *)

\* hist.created[n] before note n is created; afterwards, the content it was created with
NotCreated == "-"

\* served: the responses with the note that get-shared-note has given, by link
InitHist == [failed |-> FALSE, overlapped |-> FALSE,
             saved |-> [n \in NoteIds |-> 0],
             created |-> [n \in NoteIds |-> NotCreated],
             served |-> [l \in {"l1", "l2"} |-> 0]]


\* manual saves of note n that are between their first and last backend call
InFlight(n) == {s \in Sessions : sess[s].save.pc # "idle" /\ sess[s].save.noteId = n}

\* a backend call that returned an error is recorded in the history
Outcome(ok) == [hist EXCEPT !.failed = hist.failed \/ ~ok]

----------------------------------------------------------------------------
(* Index.handleEditNote / handleCreateNote: open the editor on note n, or on
   a new note (n = NULL).  The [noteId, open] effect starts loadNote, or
   resets the fields of a new note. *)
OpenEditor(s, n) ==
    LET e  == sess[s]
        e1 == [e EXCEPT !.open = TRUE, !.noteId = n,
                        !.loadPending = IF n # NULL THEN n ELSE e.loadPending]
        e2 == TrackChanges(e1)
        e3 == IF n = NULL THEN [e2 EXCEPT !.title = "", !.content = ""] ELSE e2
        p  == IF e3.title # e.title \/ e3.content # e.content
                 \/ e2.hasUnsavedChanges # e.hasUnsavedChanges
              THEN AutoSaveEffect(e3, timers[s])
              ELSE [e |-> e3, T |-> timers[s]]
    IN /\ ~e.open
       /\ n # NULL => notes[n].exists
       /\ sess' = [sess EXCEPT ![s] = p.e]
       /\ timers' = [timers EXCEPT ![s] = p.T]
       /\ UNCHANGED <<notes, versions, hist>>
       /\ UNCHANGED <<shareVars, trashVars>>

(* loadNote: the response of the notes select *)
LoadNote(s) ==
    LET e == sess[s]
    IN /\ e.loadPending # NULL
       /\ \E ok \in BOOLEAN :
            LET row == notes[e.loadPending]
                got == ok /\ row.exists
                e1  == IF got
                       THEN [e EXCEPT !.title = OrEmpty(row.title),
                                      !.content = OrEmpty(row.content),
                                      !.hasUnsavedChanges = FALSE,
                                      !.loadPending = NULL]
                       ELSE [e EXCEPT !.loadPending = NULL]
                p   == IF e1.title # e.title \/ e1.content # e.content
                       THEN AfterTextChange(e1, timers[s])
                       ELSE IF e1.hasUnsavedChanges # e.hasUnsavedChanges
                            THEN AfterFlagChange(e1, timers[s])
                            ELSE [e |-> e1, T |-> timers[s]]
            IN /\ sess' = [sess EXCEPT ![s] = p.e]
               /\ timers' = [timers EXCEPT ![s] = p.T]
               /\ hist' = Outcome(ok)
       /\ UNCHANGED <<notes, versions>>
       /\ UNCHANGED <<shareVars, trashVars>>

(* onChange of the rich text editor: setContent *)
EditContent(s, v) ==
    /\ sess[s].open
    /\ v # sess[s].content
    /\ LET p == AfterTextChange([sess[s] EXCEPT !.content = v], timers[s])
       IN /\ sess' = [sess EXCEPT ![s] = p.e]
          /\ timers' = [timers EXCEPT ![s] = p.T]
    /\ UNCHANGED <<notes, versions, hist>>
    /\ UNCHANGED <<shareVars, trashVars>>

(* Cancel, or the dialog's onOpenChange: onClose *)
CloseEditor(s) ==
    LET p == AfterOpenChange([sess[s] EXCEPT !.open = FALSE], timers[s])
    IN /\ sess[s].open
       /\ sess' = [sess EXCEPT ![s] = p.e]
       /\ timers' = [timers EXCEPT ![s] = p.T]
       /\ UNCHANGED <<notes, versions, hist>>
       /\ UNCHANGED <<shareVars, trashVars>>

\* notes.update({title, content}).eq('id', n): no row, no change, no error
UpdateNote(n, title, content) ==
    IF n # NULL /\ notes[n].exists
    THEN [notes EXCEPT ![n] = update_updated_at_column(
                                  [@ EXCEPT !.title = OrNull(title),
                                            !.content = OrNull(content)], now)]
    ELSE notes

(* The 3-second timer fires: handleAutoSave, with the values its closure holds *)
AutoSaveCommit(s, t) ==
    LET e1 == [sess[s] EXCEPT !.hasUnsavedChanges = FALSE]
        p  == IF sess[s].hasUnsavedChanges
              THEN AfterFlagChange(e1, timers[s] \ {t})
              ELSE [e |-> e1, T |-> timers[s] \ {t}]
    IN /\ t \in timers[s]
       /\ t.noteId # NULL /\ ~t.loading
       /\ notes' = UpdateNote(t.noteId, t.title, t.content)
       /\ sess' = [sess EXCEPT ![s] = p.e]
       /\ timers' = [timers EXCEPT ![s] = p.T]
       /\ UNCHANGED <<versions, hist>>
       /\ UNCHANGED <<shareVars, trashVars>>

AutoSaveSkip(s, t) ==
    /\ t \in timers[s]
    /\ t.noteId = NULL \/ t.loading
    /\ timers' = [timers EXCEPT ![s] = timers[s] \ {t}]
    /\ UNCHANGED <<notes, versions, sess, hist>>
    /\ UNCHANGED <<shareVars, trashVars>>

AutoSaveFail(s, t) ==
    /\ t \in timers[s]
    /\ t.noteId # NULL /\ ~t.loading
    /\ timers' = [timers EXCEPT ![s] = timers[s] \ {t}]
    /\ hist' = Outcome(FALSE)
    /\ UNCHANGED <<notes, versions, sess>>
    /\ UNCHANGED <<shareVars, trashVars>>

HandleAutoSave(s) ==
    \E t \in timers[s] :
        \/ AutoSaveCommit(s, t)
        \/ AutoSaveSkip(s, t)
        \/ AutoSaveFail(s, t)

----------------------------------------------------------------------------
(* handleSave, one action per backend call *)

\* a note id the insert can hand out
FreeIds == {n \in NoteIds : ~notes[n].exists /\ hist.created[n] = NotCreated}

(* Save Note is clicked: setLoading(true), then auth.getUser() *)
SaveStart(s) ==
    LET e == sess[s]
        n == e.noteId
    IN /\ e.open /\ ~e.loading /\ e.save.pc = "idle"
       /\ n # NULL => /\ hist.saved[n] + Cardinality(InFlight(n)) < MaxSaves
                      /\ Len(versions[n]) + Cardinality(InFlight(n)) < MaxSaves
       /\ n = NULL => FreeIds # {}
       /\ \E user \in BOOLEAN :
            /\ sess' = [sess EXCEPT ![s] =
                 IF user
                 THEN [e EXCEPT !.loading = TRUE,
                                !.save = [IdleSave EXCEPT
                                            !.pc = IF n # NULL THEN "readNote" ELSE "create",
                                            !.noteId = n,
                                            !.title = e.title,
                                            !.content = e.content]]
                 ELSE e]
            /\ hist' = [Outcome(user) EXCEPT
                          !.overlapped = hist.overlapped
                                         \/ (user /\ n # NULL /\ InFlight(n) # {})]
       /\ UNCHANGED <<notes, versions, timers>>
       /\ UNCHANGED <<shareVars, trashVars>>

(* select title, content of the note: currentNote (the error is not read) *)
SaveReadNote(s) ==
    LET sv == sess[s].save
        row == notes[sv.noteId]
    IN /\ sv.pc = "readNote"
       /\ \E ok \in BOOLEAN :
            LET cur == IF ok /\ row.exists
                       THEN [found |-> TRUE, title |-> row.title, content |-> row.content]
                       ELSE NoData
            IN /\ sess' = [sess EXCEPT ![s].save.currentNote = cur,
                                       ![s].save.pc = IF cur.found THEN "readMax"
                                                      ELSE "update"]
               /\ hist' = Outcome(ok)
       /\ UNCHANGED <<notes, versions, timers>>
       /\ UNCHANGED <<shareVars, trashVars>>

(* select the latest version_number: nextVersionNumber *)
SaveReadMax(s) ==
    LET sv == sess[s].save
        vs == versions[sv.noteId]
    IN /\ sv.pc = "readMax"
       /\ \E ok \in BOOLEAN :
            LET latest == IF ok /\ vs # <<>> THEN <<MaxVersionNumber(vs)>> ELSE <<>>
            IN /\ sess' = [sess EXCEPT ![s].save.nextVersionNumber =
                                            NextVersionNumber(latest),
                                       ![s].save.pc = "insert"]
               /\ hist' = Outcome(ok)
       /\ UNCHANGED <<notes, versions, timers>>
       /\ UNCHANGED <<shareVars, trashVars>>

\* the row handleSave inserts into note_versions
VersionRow(sv) == [version_number |-> sv.nextVersionNumber,
                   title |-> sv.currentNote.title,
                   content |-> sv.currentNote.content]

\* a variant with UNIQUE (note_id, version_number): C22 does not hold of it
AcceptsUniqueVersion(vs, noteExists, row) ==
    noteExists /\ \A i \in 1..Len(vs) : vs[i].version_number # row.version_number
\* what note_versions asks of a new row: note_id references notes; no
\* constraint reads version_number
AcceptsVersion(vs, noteExists, row) == noteExists

\* what handleSave does with the result of the insert: it goes on to the update
AfterInsert(ok) == "update"

(* insert into note_versions; the result is awaited and dropped.  The locals
   currentNote and nextVersionNumber are not read again and are reset. *)
SaveInsertVersion(s) ==
    LET sv == sess[s].save
        n  == sv.noteId
    IN /\ sv.pc = "insert"
       /\ \E ok \in BOOLEAN :
            LET done == ok /\ AcceptsVersion(versions[n], notes[n].exists, VersionRow(sv))
            IN /\ versions' = IF done
                              THEN [versions EXCEPT ![n] = Append(@, VersionRow(sv))]
                              ELSE versions
               /\ sess' = [sess EXCEPT ![s].save.insert = IF done THEN "ok" ELSE "error",
                                       ![s].save.currentNote = NoData,
                                       ![s].save.nextVersionNumber = 0,
                                       ![s].save.pc = AfterInsert(done)]
               /\ hist' = Outcome(ok)
       /\ UNCHANGED <<notes, timers>>
       /\ UNCHANGED <<shareVars, trashVars>>

\* the editor after a save that succeeded: setHasUnsavedChanges(false),
\* toast.success, onSave(), onClose(), and setLoading(false) of the finally block
SaveSucceeded(s) ==
    LET e  == sess[s]
        e1 == [e EXCEPT !.hasUnsavedChanges = FALSE, !.open = FALSE,
                        !.loading = FALSE, !.save = IdleSave]
    IN IF e.hasUnsavedChanges
       THEN AfterFlagChange(e1, timers[s])
       ELSE [e |-> e1, T |-> timers[s]]

\* the editor after a save that threw: toast.error, setLoading(false)
SaveFailed(s) == [sess[s] EXCEPT !.loading = FALSE, !.save = IdleSave]

(* update the note with the title and content of the click *)
SaveUpdateCommit(s) ==
    LET sv == sess[s].save
        p  == SaveSucceeded(s)
    IN /\ sv.pc = "update"
       /\ notes' = UpdateNote(sv.noteId, sv.title, sv.content)
       /\ sess' = [sess EXCEPT ![s] = p.e]
       /\ timers' = [timers EXCEPT ![s] = p.T]
       /\ hist' = [hist EXCEPT !.saved[sv.noteId] = @ + 1]
       /\ index' = LoadNotes(notes')
       /\ UNCHANGED versions
       /\ UNCHANGED <<shareVars, trash, mediaVars>>

SaveUpdateFail(s) ==
    /\ sess[s].save.pc = "update"
    /\ sess' = [sess EXCEPT ![s] = SaveFailed(s)]
    /\ hist' = Outcome(FALSE)
    /\ UNCHANGED <<notes, versions, timers>>
    /\ UNCHANGED <<shareVars, trashVars>>

SaveUpdate(s) == SaveUpdateCommit(s) \/ SaveUpdateFail(s)

(* the editor of a new note: insert into notes *)
SaveCreate(s) ==
    LET sv == sess[s].save
        p  == SaveSucceeded(s)
    IN /\ sv.pc = "create"
       /\ \/ \E n \in FreeIds :
               /\ notes' = [notes EXCEPT ![n] = [exists |-> TRUE,
                                                 title |-> OrNull(sv.title),
                                                 content |-> OrNull(sv.content),
                                                 deleted_at |-> NoTime,
                                                 updated_at |-> now]]
               /\ sess' = [sess EXCEPT ![s] = p.e]
               /\ timers' = [timers EXCEPT ![s] = p.T]
               /\ hist' = [hist EXCEPT !.created[n] = OrNull(sv.content)]
               /\ index' = LoadNotes(notes')
          \/ /\ sess' = [sess EXCEPT ![s] = SaveFailed(s)]
             /\ hist' = Outcome(FALSE)
             /\ UNCHANGED <<notes, timers, index>>
       /\ UNCHANGED versions
       /\ UNCHANGED <<shareVars, trash, mediaVars>>

----------------------------------------------------------------------------
(* Share links: table shared_notes, the owner's ShareNoteDialog, the public
   SharedNote page (the resolver) and the get-shared-note function *)

\* hashPassword: the SHA-256 digest of pwd in hex, kept as a term; distinct
\* passwords have distinct digests
Hash(pwd) == <<"sha256", pwd>>
\* password_hash NULL
NoHash == <<>>

\* generateToken: the 24-character token of a link
Token(l) == IF l = "l1" THEN "t1" ELSE "t2"

\* no row of shared_notes with this id
NoLink == [exists |-> FALSE, id |-> NULL, note_id |-> NULL, share_token |-> NULL,
           password_hash |-> NoHash, expires_at |-> NoTime,
           is_active |-> FALSE, view_count |-> 0]

\* the row one insert of createShareLink makes: passwordHash and expiresAt as
\* the dialog computes them, is_active and view_count from the column defaults
\* a variant that hashes whatever the password field holds: C16 does not hold of it
NewLinkHashed(l, n, usePassword, password, useExpiration, expirationDays, t) ==
    [exists |-> TRUE, id |-> l, note_id |-> n, share_token |-> Token(l),
     password_hash |-> IF password # "" THEN Hash(password) ELSE NoHash,
     expires_at |-> IF useExpiration THEN <<t + expirationDays>> ELSE NoTime,
     is_active |-> TRUE, view_count |-> 0]

\* the row createShareLink inserts; is_active and view_count are the defaults
\* of the table
NewLink(l, n, usePassword, password, useExpiration, expirationDays, t) ==
    [exists |-> TRUE, id |-> l, note_id |-> n, share_token |-> Token(l),
     password_hash |-> IF usePassword /\ password # "" THEN Hash(password) ELSE NoHash,
     expires_at |-> IF useExpiration THEN <<t + expirationDays>> ELSE NoTime,
     is_active |-> TRUE, view_count |-> 0]

\* policy "Anyone can view active shared notes by token"
AnonCanView(row, t) ==
    row.is_active /\ (row.expires_at = NoTime \/ row.expires_at[1] > t)

\* the rows of shared_notes a select returns to the page: the owner's session
\* passes "Users can view their own shares", any other passes the public policy
CanSelect(owner, row, t) == owner \/ AnonCanView(row, t)

\* loadSharedNote: sharedData.expires_at && new Date(sharedData.expires_at) < new Date()
LinkExpired(sharedData, t) ==
    sharedData.expires_at # NoTime /\ sharedData.expires_at[1] < t

\* a variant of get-shared-note without the expiry check: C5 does not hold of it
NeverExpired(sharedNote, t) == FALSE

\* get-shared-note: sharedNote.expires_at && new Date(sharedNote.expires_at) < new Date()
Expired(sharedNote, t) ==
    sharedNote.expires_at # NoTime /\ sharedNote.expires_at[1] < t

\* a variant of handleUnlock that accepts every password: C6 does not hold of it
NeverMismatch(hashedPassword, sharedNote) == FALSE

\* handleUnlock: hashedPassword !== sharedNote.password_hash
Mismatch(hashedPassword, sharedNote) == hashedPassword # sharedNote.password_hash

\* a variant of toggleLinkStatus that also resets the counter: C10 does not hold of it
ToggledAndReset(row, isActive) == [row EXCEPT !.is_active = ~isActive, !.view_count = 0]

\* toggleLinkStatus: update({ is_active: !isActive })
ToggledRow(row, isActive) == [row EXCEPT !.is_active = ~isActive]

\* sharedLinks of the dialog after loadSharedLinks read the table L
Listing(L) ==
    [l \in LinkIds |-> IF ~L[l].exists THEN "unlisted"
                       ELSE IF L[l].is_active THEN "active" ELSE "inactive"]

\* the state of the SharedNote page before its first effect
InitRes == [mounted |-> FALSE, token |-> NULL, pc |-> "idle",
            loading |-> TRUE, error |-> NULL, sharedNote |-> NoLink,
            note |-> NoData, requiresPassword |-> FALSE, password |-> "",
            passwordError |-> FALSE, unlocking |-> FALSE, last |-> "none"]

\* what the page renders: the return statements of SharedNote, in order
ResolverState(r) ==
    IF ~r.mounted THEN "Unmounted"
    ELSE IF r.loading THEN "Loading"
    ELSE IF r.error # NULL THEN "Error"
    ELSE IF r.requiresPassword THEN "PasswordRequired"
    ELSE IF r.note.found THEN "Ready"
    ELSE "Blank"

\* one invocation of get-shared-note: where the function is, the body of the
\* request, the row and the note it has read; password is what the caller's
\* handleUnlock compared ("" when the call does not come from handleUnlock),
\* at is when the request was made, and alone tells that no other invocation
\* has been under way since
IdleCall == [pc |-> "idle", noteId |-> NULL, sharedNoteId |-> NULL,
             password |-> "", view_count |-> 0, note |-> NoData, at |-> 0,
             alone |-> TRUE]

NewCall(noteId, sharedNoteId, password, t) ==
    [IdleCall EXCEPT !.pc = "validate", !.noteId = noteId,
                     !.sharedNoteId = sharedNoteId, !.password = password, !.at = t]

\* the invocations once caller c has made the request call
Invoke(C, c, call) ==
    [d \in DOMAIN C |->
        IF d = c THEN [call EXCEPT !.alone = \A x \in DOMAIN C : C[x].pc = "idle"]
        ELSE IF C[d].pc = "idle" THEN C[d]
        ELSE [C[d] EXCEPT !.alone = FALSE]]

\* runs: the link and the isActive each toggleLinkStatus under way was called
\* with, in the order of the clicks; loads: the loadSharedLinks under way
NoRun == [runs |-> <<>>, loads |-> 0]

\* the last response a caller outside the page received
NoResponse == [status |-> "none", note |-> NoData]

InitShareVars ==
    /\ links = [l \in LinkIds |-> NoLink]
    /\ now = 0
    /\ res = InitRes
    /\ calls = [c \in Callers |-> IdleCall]
    /\ direct = NoResponse
    /\ dlg = [l \in LinkIds |-> "unlisted"]
    /\ toggling = NoRun

\* view_count stays within MaxViews: a request is made only while the count
\* and the invocations in progress leave room for one more view
Budget ==
    \A l \in DOMAIN links :
        /\ links[l].view_count + Cardinality({c \in Callers : calls[c].pc # "idle"}) < MaxViews
        /\ hist.served[l] + Cardinality({c \in Callers : calls[c].pc # "idle"}) < MaxViews

----------------------------------------------------------------------------
(* The owner: ShareNoteDialog, NoteCard, Trash *)

\* an id the insert of a link can hand out (gen_random_uuid, never reused)
FreeLinkIds == {l \in LinkIds : links[l].id = NULL}

\* what the owner may have left in the password field of the dialog
DialogPasswords == {OwnerPassword, ""}

(* createShareLink with the fields of the dialog, when the insert succeeds,
   with the loadSharedLinks it ends with.  The button is disabled while
   password protection is on and the password field is empty. *)
InsertShareLink(n, usePassword, password, useExpiration, expirationDays) ==
    /\ notes[n].exists
    /\ FreeLinkIds # {}
    /\ ~(usePassword /\ password = "")
    /\ LET l == CHOOSE x \in FreeLinkIds : TRUE
       IN links' = [links EXCEPT ![l] = NewLink(l, n, usePassword, password,
                                                 useExpiration, expirationDays, now)]
    /\ dlg' = Listing(links')
    /\ UNCHANGED <<toggling, trashVars, editorVars, notes, now, res, calls, direct>>

CreateShareLink(n) ==
    \E usePassword \in BOOLEAN, password \in DialogPasswords,
       useExpiration \in BOOLEAN, expirationDays \in Days :
        InsertShareLink(n, usePassword, password, useExpiration, expirationDays)

(* createShareLink when the insert returns an error: the catch block *)
CreateShareLinkFailed(n) ==
    /\ notes[n].exists
    /\ toast' = "Failed to create share link"
    /\ UNCHANGED <<listVars, media, storage, tags, note_tags, pd, up, issued,
                   editorVars, notes, shareVars>>

(* the [open, noteId] effect of the dialog: loadSharedLinks *)
LoadSharedLinks ==
    /\ dlg' = Listing(links)
    /\ UNCHANGED <<toggling, trashVars, editorVars, notes, links, now, res, calls, direct>>

(* toggleLinkStatus(link.id, link.is_active) on a listed link, with the
   loadSharedLinks it ends with *)
ToggleLinkStatus(l) ==
    /\ dlg[l] # "unlisted"
    /\ links' = IF links[l].exists
                THEN [links EXCEPT ![l] = ToggledRow(links[l], dlg[l] = "active")]
                ELSE links
    /\ dlg' = Listing(links')
    /\ UNCHANGED <<toggling, trashVars, editorVars, notes, now, res, calls, direct>>

\* s without its i-th element
Without(s, i) == SubSeq(s, 1, i - 1) \o SubSeq(s, i + 1, Len(s))

(* A click on the switch of a listed link: toggleLinkStatus(link.id,
   link.is_active) sends its update.  The list is shown while no
   loadSharedLinks is under way. *)
ToggleClick(l) ==
    /\ dlg[l] # "unlisted"
    /\ toggling.loads = 0
    /\ Len(toggling.runs) < MaxToggles
    /\ toggling' = [toggling EXCEPT !.runs = Append(@, <<l, dlg[l] = "active">>)]
    /\ UNCHANGED <<trashVars, editorVars, notes, links, now, res, calls, direct, dlg>>

(* the update of a toggleLinkStatus reaches the table (an update that matches
   no row is no error), and the run starts loadSharedLinks *)
ToggleUpdate(i) ==
    /\ i \in 1..Len(toggling.runs)
    /\ LET l == toggling.runs[i][1]
           isActive == toggling.runs[i][2]
       IN links' = IF links[l].exists
                   THEN [links EXCEPT ![l] = ToggledRow(links[l], isActive)]
                   ELSE links
    /\ toggling' = [runs |-> Without(toggling.runs, i), loads |-> toggling.loads + 1]
    /\ UNCHANGED <<trashVars, editorVars, notes, now, res, calls, direct, dlg>>

(* the select of a loadSharedLinks under way answers: setSharedLinks *)
LoadSharedLinksDone ==
    /\ toggling.loads > 0
    /\ dlg' = Listing(links)
    /\ toggling' = [toggling EXCEPT !.loads = @ - 1]
    /\ UNCHANGED <<trashVars, editorVars, notes, links, now, res, calls, direct>>

(* toggleLinkStatus in another session of the owner, whose dialog lists the
   link as it is stored *)
ToggleElsewhere(l) ==
    /\ links[l].exists
    /\ links' = [links EXCEPT ![l] = ToggledRow(links[l], links[l].is_active)]
    /\ UNCHANGED <<toggling, trashVars, editorVars, notes, now, res, calls, direct, dlg>>

(* deleteLink on a listed link, with the loadSharedLinks it ends with *)
DeleteLink(l) ==
    /\ dlg[l] # "unlisted"
    /\ links' = [links EXCEPT ![l] = [NoLink EXCEPT !.id = l]]
    /\ dlg' = Listing(links')
    /\ UNCHANGED <<toggling, trashVars, editorVars, notes, now, res, calls, direct>>

\* update({ deleted_at: new Date().toISOString() }) of handleDelete
SoftDeleted(row, t) == [row EXCEPT !.deleted_at = <<t>>]

RestoredStillDeleted(row) == row
\* update({ deleted_at: null }) of restoreNote
Restored(row) == [row EXCEPT !.deleted_at = NoTime]

(* The mount of the Index page: loadNotes *)
MountIndex ==
    /\ index' = LoadNotes(notes)
    /\ UNCHANGED <<notes, trash, mediaVars, editorVars, shareVars>>

(* The mount of the Trash page: checkAuth and its loadDeletedNotes *)
MountTrash ==
    /\ trash' = LoadDeletedNotes(notes)
    /\ UNCHANGED <<notes, index, mediaVars, editorVars, shareVars>>

(* NoteCard.handleDelete on a card of the Index page: the soft delete, then
   onDelete, the loadNotes of the page.  An update that matches no row is no
   error. *)
SoftDelete(n) ==
    /\ n \in index
    /\ notes' = IF notes[n].exists
                THEN [notes EXCEPT ![n] = update_updated_at_column(SoftDeleted(@, now), now)]
                ELSE notes
    /\ index' = LoadNotes(notes')
    /\ UNCHANGED <<trash, mediaVars, editorVars, shareVars>>

(* Trash.restoreNote on a card of the Trash page, then loadDeletedNotes *)
RestoreNote(n) ==
    /\ n \in trash
    /\ notes' = IF notes[n].exists
                THEN [notes EXCEPT ![n] = update_updated_at_column(Restored(@), now)]
                ELSE notes
    /\ trash' = LoadDeletedNotes(notes')
    /\ UNCHANGED <<index, mediaVars, editorVars, shareVars>>

(* time passes *)
Tick ==
    /\ now < MaxTime
    /\ now' = now + 1
    /\ UNCHANGED <<toggling, trashVars, editorVars, notes, links, res, calls, direct, dlg>>

----------------------------------------------------------------------------
(* Media and the permanent delete: NoteEditor.handleFileUpload and the Trash
   page.  The Index and Trash pages show the notes of one user. *)

\* the notes and the links of the Trash page's user
AllNoteIds == NoteIds \cup {"n2"}
AllLinkIds == LinkIds \cup {"l2"}
MediaIds == {"m1", "m2"}
TagIds == {"t1", "t2", "t3"}
\* two users, and a note of the second one
Users == {"ua", "ub"}
OtherNoteIds == {"n3"}
\* notes.user_id, which no update changes
NoteOwner(n) == IF n \in OtherNoteIds THEN "ub" ELSE "ua"
\* what is typed in the "Tag name" field
TagNames == {"work", " work", "home", " "}
\* newTagName.trim()
Trim(name) == IF name = " work" THEN "work" ELSE IF name = " " THEN "" ELSE name
\* the upload buttons of the editor; media_type IN ('image', 'audio', 'video')
MediaTypes == {"image", "audio", "video"}

\* the bucket of a media type, computed alike by handleFileUpload and
\* permanentlyDelete
Bucket(media_type) ==
    IF media_type = "image" THEN "note-images"
    ELSE IF media_type = "audio" THEN "note-audio" ELSE "note-videos"

\* filePath: `${user.id}/${Date.now()}_${file.name}`, one per upload
FilePath(m) == <<"path", m>>

NoMedia == [exists |-> FALSE, note_id |-> NULL, media_type |-> NULL, storage_path |-> <<>>]
NoTag == [exists |-> FALSE, user_id |-> NULL, name |-> NULL]

\* the blob a note_media row refers to
Blob(row) == <<Bucket(row.media_type), row.storage_path>>

\* select * from note_media where note_id = n
MediaOf(M, n) == {m \in MediaIds : M[m].exists /\ M[m].note_id = n}

IdleUpload == [pc |-> "idle", noteId |-> NULL, type |-> NULL, file |-> NULL]
\* media: the rows the select returned that the loop has not handled yet
\* all: the run was started by emptyTrash; rest: the notes of its list that
\* it has not come to yet
IdleDelete == [pc |-> "idle", noteId |-> NULL, media |-> {}, all |-> FALSE, rest |-> {}]

InitTrashVars ==
    /\ index = LoadNotes(notes)
    /\ trash = {}
    /\ media = [m \in MediaIds |-> NoMedia]
    /\ storage = {}
    /\ tags = [t \in TagIds |-> NoTag]
    /\ note_tags = [a \in (AllNoteIds \cup OtherNoteIds) \X TagIds |-> 0]
    /\ pd = IdleDelete
    /\ up = IdleUpload
    /\ toast = ""
    /\ issued = {}

\* a file that was never uploaded before
FreeMediaIds ==
    {m \in MediaIds : /\ ~media[m].exists
                      /\ \A b \in storage \cup issued \cup {Blob(i) : i \in pd.media} :
                            b[2] # FilePath(m)}

(* handleFileUpload in the editor of a listed note, up to storage.upload *)
UploadFile(n, type) ==
    /\ up.pc = "idle"
    /\ n \in index
    /\ FreeMediaIds # {}
    /\ LET m == IF "m1" \in FreeMediaIds THEN "m1" ELSE "m2"
       IN
         \/ /\ storage' = storage \cup {<<Bucket(type), FilePath(m)>>}
            /\ up' = [pc |-> "insert", noteId |-> n, type |-> type, file |-> m]
            /\ UNCHANGED toast
         \/ /\ toast' = "Failed to upload file"
            /\ UNCHANGED <<storage, up>>
    /\ UNCHANGED <<notes, listVars, media, tags, note_tags, pd, issued, editorVars, shareVars>>

(* handleFileUpload, the insert into note_media: note_id references notes *)
InsertMedia ==
    /\ up.pc = "insert"
    /\ \/ /\ notes[up.noteId].exists
          /\ media' = [media EXCEPT ![up.file] =
                          [exists |-> TRUE, note_id |-> up.noteId, media_type |-> up.type,
                           storage_path |-> FilePath(up.file)]]
          /\ UNCHANGED toast
       \/ /\ toast' = "Failed to upload file"
          /\ UNCHANGED media
    /\ up' = IdleUpload
    /\ UNCHANGED <<notes, listVars, storage, tags, note_tags, pd, issued, editorVars, shareVars>>

(* handleRemoveMedia on a media item of the editor of a note of the main
   list: storage.remove, whose result is not read, then the delete of the
   row, whose error is shown *)
HandleRemoveMedia(m) ==
    /\ media[m].exists
    /\ media[m].note_id \in index
    /\ \/ storage' = storage \ {Blob(media[m])}
       \/ UNCHANGED storage
    /\ \/ /\ media' = [media EXCEPT ![m] = NoMedia]
          /\ UNCHANGED toast
       \/ /\ toast' = "Failed to remove media"
          /\ UNCHANGED media
    /\ UNCHANGED <<notes, listVars, tags, note_tags, pd, up, issued, editorVars, shareVars>>

(* permanentlyDelete on a card of the Trash page: the select of the media of
   the note; its error is not read, and data is then null *)
DeleteSelectMedia(n) ==
    /\ pd.pc = "idle"
    /\ n \in trash
    /\ \E ok \in BOOLEAN :
         pd' = [IdleDelete EXCEPT
                  !.pc = "remove", !.noteId = n,
                  !.media = IF ok THEN {media[m] : m \in MediaOf(media, n)} ELSE {}]
    /\ UNCHANGED <<notes, listVars, media, storage, tags, note_tags, up, toast, issued,
                   editorVars, shareVars>>

(* emptyTrash, confirmed in the dialog of the Trash page: the loop is over the
   notes the page lists at that moment *)
EmptyTrash ==
    /\ pd.pc = "idle"
    /\ trash # {}
    /\ pd' = [IdleDelete EXCEPT !.pc = "select", !.all = TRUE, !.rest = trash]
    /\ UNCHANGED <<notes, listVars, media, storage, tags, note_tags, up, toast, issued,
                   editorVars, shareVars>>

(* emptyTrash, one turn of its loop: permanentlyDelete of a note of the list,
   up to the answer of its select of the media; the notes are taken in any
   order *)
EmptyTrashNext ==
    /\ pd.pc = "select"
    /\ \E n \in pd.rest, ok \in BOOLEAN :
         pd' = [pd EXCEPT
                  !.pc = "remove", !.noteId = n, !.rest = @ \ {n},
                  !.media = IF ok THEN {media[m] : m \in MediaOf(media, n)} ELSE {}]
    /\ UNCHANGED <<notes, listVars, media, storage, tags, note_tags, up, toast, issued,
                   editorVars, shareVars>>

(* restoreNote on another Trash page of the same user *)
RestoreElsewhere(n) ==
    /\ notes[n].exists /\ notes[n].deleted_at # NoTime
    /\ notes' = [notes EXCEPT ![n] = update_updated_at_column(Restored(@), now)]
    /\ UNCHANGED <<listVars, mediaVars, editorVars, shareVars>>

(* permanentlyDelete, one turn of the loop: storage.remove of an item; what
   it returns is not read *)
DeleteRemoveBlob ==
    /\ pd.pc = "remove"
    /\ \E item \in pd.media :
         /\ pd' = [pd EXCEPT !.media = @ \ {item}]
         /\ issued' = issued \cup {Blob(item)}
         /\ \/ storage' = storage \ {Blob(item)}
            \/ UNCHANGED storage
    /\ UNCHANGED <<notes, listVars, media, tags, note_tags, up, toast, editorVars, shareVars>>

\* notes.delete().eq('id', n) with the ON DELETE CASCADE of note_media,
\* note_versions, note_tags and shared_notes
CascadeMedia(n) == [m \in MediaIds |-> IF media[m].note_id = n THEN NoMedia ELSE media[m]]
CascadeVersions(n) == [versions EXCEPT ![n] = <<>>]
CascadeNoteTags(n) == [a \in DOMAIN note_tags |-> IF a[1] = n THEN 0 ELSE note_tags[a]]
CascadeLinks(n) ==
    [l \in DOMAIN links |-> IF links[l].note_id = n THEN [NoLink EXCEPT !.id = l]
                            ELSE links[l]]

(* permanentlyDelete after the loop: the delete of the note, then
   loadDeletedNotes; a delete that matches no row is no error.  An error is
   caught in permanentlyDelete, so that emptyTrash goes on with its loop. *)
DeleteNote ==
    LET n == pd.noteId
    IN /\ pd.pc = "remove" /\ pd.media = {}
       /\ pd' = IF pd.rest = {} THEN IdleDelete
                 ELSE [pd EXCEPT !.pc = "select", !.noteId = NULL]
       /\ \/ /\ notes' = [notes EXCEPT ![n] = NoRow]
             /\ media' = CascadeMedia(n)
             /\ versions' = CascadeVersions(n)
             /\ note_tags' = CascadeNoteTags(n)
             /\ links' = CascadeLinks(n)
             /\ trash' = LoadDeletedNotes(notes')
             /\ UNCHANGED toast
          \/ /\ toast' = "Failed to delete note"
             /\ UNCHANGED <<notes, media, versions, note_tags, links, trash>>
       /\ UNCHANGED <<index, storage, tags, up, issued, sess, timers, hist,
                      now, res, calls, direct, dlg, toggling>>

----------------------------------------------------------------------------
(* TagManager, in the editor of a note of the signed-in user *)

NeverConflicts(T, user_id, name) == FALSE
\* UNIQUE(user_id, name) of tags rejects the insert
Conflicts(T, user_id, name) ==
    \E t \in TagIds : T[t].exists /\ T[t].user_id = user_id /\ T[t].name = name

\* the message of the error a violated unique constraint returns
DuplicateKey == "duplicate key value violates unique constraint"

\* an id the insert of a tag can hand out
FreeTagIds == {t \in TagIds : ~tags[t].exists}

\* the insert into note_tags: the pair is the primary key, and note_id
\* references notes
AttachAgain(n, t) == notes[n].exists /\ tags[t].exists
CanAttach(n, t) == notes[n].exists /\ tags[t].exists /\ note_tags[<<n, t>>] = 0

\* error.message.includes('duplicate')
IncludesDuplicate(message) == message = DuplicateKey

(* createTag with newTagName in the TagManager of note n: the insert into
   tags and, when it succeeds, addTagToNote of the new tag *)
CreateTag(n, newTagName) ==
    LET user_id == NoteOwner(n)
        name == Trim(newTagName)
    IN /\ n \in DOMAIN notes /\ notes[n].exists
       /\ name # ""
       /\ IF Conflicts(tags, user_id, name)
          THEN /\ toast' = DuplicateKey
               /\ UNCHANGED <<tags, note_tags>>
          ELSE /\ FreeTagIds # {}
               /\ LET t == CHOOSE x \in FreeTagIds : TRUE
                  IN /\ tags' = [tags EXCEPT ![t] = [exists |-> TRUE, user_id |-> user_id,
                                                      name |-> name]]
                     /\ note_tags' = [note_tags EXCEPT ![<<n, t>>] = @ + 1]
               /\ UNCHANGED toast
       /\ UNCHANGED <<notes, listVars, media, storage, pd, up, issued, editorVars, shareVars>>

(* addTagToNote of a tag of the user: an error whose message includes
   'duplicate' is not shown *)
AddTagToNote(n, t) ==
    /\ n \in DOMAIN notes /\ notes[n].exists
    /\ tags[t].exists /\ tags[t].user_id = NoteOwner(n)
    /\ IF CanAttach(n, t)
       THEN /\ note_tags' = [note_tags EXCEPT ![<<n, t>>] = @ + 1]
            /\ UNCHANGED toast
       ELSE LET message == IF note_tags[<<n, t>>] > 0
                           THEN DuplicateKey ELSE "Failed to add tag"
            IN /\ toast' = IF IncludesDuplicate(message) THEN toast ELSE message
               /\ UNCHANGED note_tags
    /\ UNCHANGED <<notes, listVars, media, storage, tags, pd, up, issued,
                   editorVars, shareVars>>

(* removeTagFromNote of a tag shown on the note *)
RemoveTagFromNote(n, t) ==
    /\ n \in DOMAIN notes /\ note_tags[<<n, t>>] > 0
    /\ note_tags' = [note_tags EXCEPT ![<<n, t>>] = 0]
    /\ UNCHANGED <<notes, listVars, media, storage, tags, pd, up, toast, issued,
                   editorVars, shareVars>>

----------------------------------------------------------------------------
(* The SharedNote page *)

\* the password form is on screen
FormShown == ResolverState(res) = "PasswordRequired"

\* the page has no request under way
PageQuiet == res.pc = "idle" /\ \A c \in PageCallers : calls[c].pc = "idle"

(* the page is opened, or opened again, at /shared/:token: the [token]
   effect starts loadSharedNote *)
Visit(token) ==
    /\ PageQuiet
    /\ res' = [InitRes EXCEPT !.mounted = TRUE, !.token = token, !.pc = "lookup"]
    /\ UNCHANGED <<toggling, trashVars, editorVars, notes, links, now, calls, direct, dlg>>

\* a variant whose catch block sets no error: C30 does not hold of it
LoadNoteContentSilent(r, status, note) ==
    IF status = "200"
    THEN [r EXCEPT !.note = note, !.requiresPassword = FALSE]
    ELSE r
\* loadNoteContent after functions.invoke returned
LoadNoteContent(r, status, note) ==
    IF status = "200"
    THEN [r EXCEPT !.note = note, !.requiresPassword = FALSE]
    ELSE [r EXCEPT !.error = "Failed to load note content."]

(* loadSharedNote: the response of the shared_notes select, made in the
   browser session of the note's owner or in any other, and what follows up
   to the return or to the request of loadNoteContent *)
LoadSharedNote(owner) ==
    /\ res.pc = "lookup"
    /\ \E ok \in BOOLEAN :
         LET hits == {l \in LinkIds : /\ links[l].exists
                                      /\ links[l].share_token = res.token
                                      /\ links[l].is_active
                                      /\ CanSelect(owner, links[l], now)}
             sharedData == links[CHOOSE l \in hits : TRUE]
             r == [res EXCEPT !.pc = "idle", !.last = "lookup"]
         IN IF ~ok \/ hits = {}
            THEN /\ res' = [r EXCEPT !.loading = FALSE,
                              !.error = "This shared link is invalid or has been deactivated."]
                 /\ calls' = calls
            ELSE IF LinkExpired(sharedData, now)
            THEN /\ res' = [r EXCEPT !.loading = FALSE,
                              !.error = "This shared link has expired."]
                 /\ calls' = calls
            ELSE IF sharedData.password_hash # NoHash
            THEN /\ res' = [r EXCEPT !.sharedNote = sharedData,
                                     !.requiresPassword = TRUE, !.loading = FALSE]
                 /\ calls' = calls
            ELSE /\ Budget
                 /\ res' = [r EXCEPT !.sharedNote = sharedData]
                 /\ calls' = Invoke(calls, "entry",
                                   NewCall(sharedData.note_id, sharedData.id, "", now))
    /\ UNCHANGED <<toggling, trashVars, editorVars, notes, links, now, direct, dlg>>

(* onChange of the password input *)
TypePassword(p) ==
    /\ FormShown
    /\ p # res.password
    /\ res' = [res EXCEPT !.password = p]
    /\ UNCHANGED <<toggling, trashVars, editorVars, notes, links, now, calls, direct, dlg>>

\* handleUnlock can be started: by the Unlock button, which is disabled
\* while the field is empty or an unlock is under way, or by the Enter key
CanSubmit(byButton) ==
    /\ FormShown
    /\ byButton => (res.password # "" /\ ~res.unlocking)

\* handleUnlock, `if (!password || !sharedNote) return`
SubmitEmpty(byButton) ==
    /\ CanSubmit(byButton)
    /\ res.password = "" \/ ~res.sharedNote.exists
    /\ res' = [res EXCEPT !.last = "empty"]
    /\ UNCHANGED <<toggling, trashVars, editorVars, notes, links, now, calls, direct, dlg>>

\* handleUnlock, the digest differs from the stored hash
SubmitWrong(byButton) ==
    /\ CanSubmit(byButton)
    /\ res.password # "" /\ res.sharedNote.exists
    /\ Mismatch(Hash(res.password), res.sharedNote)
    /\ res' = [res EXCEPT !.passwordError = TRUE, !.unlocking = FALSE,
                          !.last = "mismatch"]
    /\ UNCHANGED <<toggling, trashVars, editorVars, notes, links, now, calls, direct, dlg>>

\* the runs of handleUnlock that are not waiting for get-shared-note
FreeRuns == {c \in Runs : calls[c].pc = "idle"}

\* handleUnlock, the digest is the stored hash: loadNoteContent is called
SubmitRight(byButton) ==
    /\ CanSubmit(byButton)
    /\ res.password # "" /\ res.sharedNote.exists
    /\ ~Mismatch(Hash(res.password), res.sharedNote)
    /\ FreeRuns # {}
    /\ Budget
    /\ res' = [res EXCEPT !.unlocking = TRUE, !.passwordError = FALSE,
                          !.last = "match"]
    /\ calls' = Invoke(calls, IF "u1" \in FreeRuns THEN "u1" ELSE "u2",
                      NewCall(res.sharedNote.note_id, res.sharedNote.id, res.password, now))
    /\ UNCHANGED <<toggling, trashVars, editorVars, notes, links, now, direct, dlg>>

(* handleUnlock, up to its return or to the request of loadNoteContent; the
   digest is computed in the page, without a backend call *)
HandleUnlock(byButton) ==
    \/ SubmitEmpty(byButton)
    \/ SubmitWrong(byButton)
    \/ SubmitRight(byButton)

----------------------------------------------------------------------------
(* The function get-shared-note *)

(* a request made without the page, with a body of the caller's choice *)
DirectRequest(noteId, sharedNoteId) ==
    /\ calls["direct"].pc = "idle"
    /\ IF noteId = "" \/ sharedNoteId = ""
       THEN /\ direct' = [status |-> "400", note |-> NoData]
            /\ calls' = calls
       ELSE /\ Budget
            /\ direct' = NoResponse
            /\ calls' = Invoke(calls, "direct", NewCall(noteId, sharedNoteId, "", now))
    /\ UNCHANGED <<toggling, trashVars, editorVars, notes, links, now, res, dlg>>

\* the response reaches its caller: the rest of loadSharedNote (entry), of
\* handleUnlock (a run), or the caller outside the page
Respond(c, status, note) ==
    /\ calls' = [calls EXCEPT ![c] = IdleCall]
    /\ IF c = "direct"
       THEN /\ direct' = [status |-> status, note |-> note]
            /\ res' = res
       ELSE /\ direct' = direct
            /\ res' = IF c = "entry"
                      THEN [LoadNoteContent(res, status, note) EXCEPT
                               !.loading = FALSE, !.last = status]
                      ELSE [LoadNoteContent(res, status, note) EXCEPT
                               !.unlocking = FALSE, !.last = status]

\* a variant that finds a row by its id whether or not it is still there:
\* C18 does not hold of it
LinkById(l, noteId) ==
    /\ l \in DOMAIN links
    /\ links[l].id = l
\* the select of the function finds a row: .eq('id', sharedNoteId)
\* .eq('note_id', noteId).eq('is_active', true).single()
LinkFound(l, noteId) ==
    /\ l \in DOMAIN links
    /\ links[l].exists
    /\ links[l].note_id = noteId
    /\ links[l].is_active

(* the select of the link and the expiry check *)
FetchValidate(c) ==
    /\ calls[c].pc = "validate"
    /\ \E ok \in BOOLEAN :
         LET l   == calls[c].sharedNoteId
             hit == ok /\ LinkFound(l, calls[c].noteId)
         IN IF ~hit THEN Respond(c, "404", NoData)
            ELSE IF Expired(links[l], now) THEN Respond(c, "410", NoData)
            ELSE /\ calls' = [calls EXCEPT ![c].pc = "readNote",
                                           ![c].view_count = links[l].view_count]
                 /\ UNCHANGED <<res, direct>>
    /\ UNCHANGED <<toggling, trashVars, editorVars, notes, links, now, dlg>>

AnyNote(row) == row.exists
\* the note the select returns: .eq('id', noteId).is('deleted_at', null)
ActiveNote(row) == row.exists /\ row.deleted_at = NoTime

(* the select of the note *)
FetchReadNote(c) ==
    /\ calls[c].pc = "readNote"
    /\ \E ok \in BOOLEAN :
         LET n == calls[c].noteId
         IN IF ok /\ ActiveNote(notes[n])
            THEN /\ calls' = [calls EXCEPT ![c].pc = "count",
                                ![c].note = [found |-> TRUE, title |-> notes[n].title,
                                             content |-> notes[n].content]]
                 /\ UNCHANGED <<res, direct>>
            ELSE Respond(c, "404", NoData)
    /\ UNCHANGED <<toggling, trashVars, editorVars, notes, links, now, dlg>>

\* a variant that adds 1 to the stored count: C23 does not hold of it
IncrementStored(row, view_count) == [row EXCEPT !.view_count = row.view_count + 1]
\* update({ view_count: sharedNote.view_count + 1 }), sharedNote being the
\* row the function selected at its start
IncrementRead(row, view_count) == [row EXCEPT !.view_count = view_count + 1]

(* the update of view_count, whose result is not looked at, and the response *)
FetchCount(c) ==
    /\ calls[c].pc = "count"
    /\ \E ok \in BOOLEAN :
         LET l == calls[c].sharedNoteId
         IN /\ links' = IF ok /\ links[l].exists
                        THEN [links EXCEPT ![l] = IncrementRead(@, calls[c].view_count)]
                        ELSE links
            /\ hist' = [hist EXCEPT !.served[l] = @ + 1]
    /\ Respond(c, "200", calls[c].note)
    /\ UNCHANGED <<toggling, trashVars, versions, sess, timers, notes, now, dlg>>

----------------------------------------------------------------------------
(* Specifications *)

\* no note yet, the editors mounted and closed, no link, the page not opened
InitEditor ==
    /\ notes = [n \in NoteIds |-> NoRow]
    /\ versions = [n \in NoteIds |-> <<>>]
    /\ sess = [s \in Sessions |-> InitSession]
    /\ timers = [s \in Sessions |-> {}]
    /\ hist = InitHist
    /\ InitShareVars
    /\ InitTrashVars

\* One editor: everything its user and its timers can do.
NextEditor ==
    \E s \in {"e1"} :
        \/ \E n \in NoteIds \cup {NULL} : OpenEditor(s, n)
        \/ LoadNote(s)
        \/ \E v \in Contents : EditContent(s, v)
        \/ CloseEditor(s)
        \/ HandleAutoSave(s)
        \/ SaveStart(s)
        \/ SaveReadNote(s)
        \/ SaveReadMax(s)
        \/ SaveInsertVersion(s)
        \/ SaveUpdate(s)
        \/ SaveCreate(s)

SpecEditor == InitEditor /\ [][NextEditor]_vars

\* Two editors (two tabs or devices of the user) that open, type c1 and save
\* within the 3 seconds of the auto-save delay, so that no timer fires.
NextSaves ==
    \E s \in Sessions :
        \/ \E n \in NoteIds \cup {NULL} : OpenEditor(s, n)
        \/ LoadNote(s)
        \/ \E v \in {"c1"} : EditContent(s, v)
        \/ SaveStart(s)
        \/ SaveReadNote(s)
        \/ SaveReadMax(s)
        \/ SaveInsertVersion(s)
        \/ SaveUpdate(s)
        \/ SaveCreate(s)

SpecSaves == InitEditor /\ [][NextSaves]_vars

\* The share links of the note n1: its owner, the visitors of the page and
\* the callers of get-shared-note.
NextShare ==
    \/ \E n \in NoteIds : CreateShareLink(n)
    \/ LoadSharedLinks
    \/ \E l \in LinkIds : ToggleLinkStatus(l)
    \/ \E l \in LinkIds : DeleteLink(l)
    \/ \E n \in NoteIds : SoftDelete(n)
    \/ Tick
    \/ \E l \in LinkIds : Visit(Token(l))
    \/ \E owner \in BOOLEAN : LoadSharedNote(owner)
    \/ \E p \in Passwords \cup {""} : TypePassword(p)
    \/ \E byButton \in BOOLEAN : HandleUnlock(byButton)
    \/ \E noteId \in NoteIds \cup {""}, sharedNoteId \in LinkIds \cup {""} :
          DirectRequest(noteId, sharedNoteId)
    \/ \E c \in Callers : FetchValidate(c)
    \/ \E c \in Callers : FetchReadNote(c)
    \/ \E c \in Callers : FetchCount(c)

\* the note n1 exists, with content c0, and has no link yet
InitShare ==
    /\ notes = [n \in NoteIds |-> [exists |-> TRUE, title |-> NULL, content |-> "c0",
                                   deleted_at |-> NoTime, updated_at |-> 0]]
    /\ versions = [n \in NoteIds |-> <<>>]
    /\ sess = [s \in Sessions |-> InitSession]
    /\ timers = [s \in Sessions |-> {}]
    /\ hist = [InitHist EXCEPT !.created = [n \in NoteIds |-> "c0"]]
    /\ InitShareVars
    /\ InitTrashVars

SpecShare == InitShare /\ [][NextShare]_vars

\* The ShareNoteDialog of the note n1, whose reloads may lag behind its
\* writes, and another session of the owner.
NextDialog ==
    \/ \E n \in NoteIds : CreateShareLink(n)
    \/ \E n \in NoteIds : CreateShareLinkFailed(n)
    \/ LoadSharedLinks
    \/ \E l \in LinkIds : ToggleClick(l)
    \/ \E i \in 1..MaxToggles : ToggleUpdate(i)
    \/ LoadSharedLinksDone
    \/ \E l \in LinkIds : ToggleElsewhere(l)
    \/ \E l \in LinkIds : DeleteLink(l)
    \/ Tick

SpecDialog == InitShare /\ [][NextDialog]_vars

\* The note n1 goes to the trash and comes back while its link is used: the
\* owner, the Trash page, a visitor who types no password and a caller
\* outside the page.
NextShareTrash ==
    \/ \E n \in NoteIds : CreateShareLink(n)
    \/ \E l \in LinkIds : ToggleLinkStatus(l)
    \/ \E n \in NoteIds : SoftDelete(n)
    \/ MountTrash
    \/ \E n \in NoteIds : RestoreNote(n)
    \/ Tick
    \/ \E l \in LinkIds : Visit(Token(l))
    \/ \E owner \in BOOLEAN : LoadSharedNote(owner)
    \/ \E noteId \in NoteIds, sharedNoteId \in LinkIds : DirectRequest(noteId, sharedNoteId)
    \/ \E c \in {"entry", "direct"} : FetchValidate(c)
    \/ \E c \in {"entry", "direct"} : FetchReadNote(c)
    \/ \E c \in {"entry", "direct"} : FetchCount(c)

SpecShareTrash == InitShare /\ [][NextShareTrash]_vars

\* A user with two notes, each saved once over its first content and shared
\* by one link; n1 carries an image and the tag t1.
InitTrash ==
    /\ notes = [n \in AllNoteIds |->
                  [exists |-> TRUE, title |-> NULL,
                   content |-> IF n \in NoteIds THEN "c1" ELSE "c0",
                   deleted_at |-> NoTime, updated_at |-> 0]]
    /\ versions = [n \in AllNoteIds |->
                     <<[version_number |-> 1, title |-> NULL, content |-> "c0"]>>]
    /\ sess = [s \in Sessions |-> InitSession]
    /\ timers = [s \in Sessions |-> {}]
    /\ hist = [InitHist EXCEPT !.created = [n \in NoteIds |-> "c0"],
                               !.saved = [n \in NoteIds |-> 1]]
    /\ links = [l \in AllLinkIds |->
                  NewLink(l, IF l \in LinkIds THEN "n1" ELSE "n2", FALSE, "", FALSE, 1, 0)]
    /\ now = 0
    /\ res = InitRes
    /\ calls = [c \in Callers |-> IdleCall]
    /\ direct = NoResponse
    /\ dlg = [l \in LinkIds |-> "unlisted"]
    /\ toggling = NoRun
    /\ index = LoadNotes(notes)
    /\ trash = {}
    /\ media = [m \in MediaIds |->
                  IF m = "m1"
                  THEN [exists |-> TRUE, note_id |-> "n1", media_type |-> "image",
                        storage_path |-> FilePath(m)]
                  ELSE NoMedia]
    /\ storage = {<<Bucket("image"), FilePath("m1")>>}
    /\ tags = [t \in TagIds |->
                 IF t = "t1" THEN [exists |-> TRUE, user_id |-> "ua", name |-> "work"]
                 ELSE NoTag]
    /\ note_tags = [a \in (AllNoteIds \cup OtherNoteIds) \X TagIds |->
                      IF a = <<"n1", "t1">> THEN 1 ELSE 0]
    /\ pd = IdleDelete
    /\ up = IdleUpload
    /\ toast = ""
    /\ issued = {}

\* The Index and Trash pages and an editor that uploads: soft delete and
\* restore, as time passes.
NextTrash ==
    \/ MountIndex
    \/ MountTrash
    \/ \E n \in AllNoteIds : SoftDelete(n)
    \/ \E n \in AllNoteIds : RestoreNote(n)
    \/ Tick
    \/ \E n \in AllNoteIds, type \in MediaTypes : UploadFile(n, type)
    \/ InsertMedia

SpecTrash == InitTrash /\ [][NextTrash]_vars

\* The Trash page and an editor that uploads: notes are moved to the trash
\* and deleted for good.
NextPurge ==
    \/ MountTrash
    \/ \E n \in AllNoteIds : SoftDelete(n)
    \/ \E n \in AllNoteIds, type \in MediaTypes : UploadFile(n, type)
    \/ InsertMedia
    \/ \E n \in AllNoteIds : DeleteSelectMedia(n)
    \/ DeleteRemoveBlob
    \/ DeleteNote
    \/ EmptyTrash
    \/ EmptyTrashNext
    \/ \E n \in AllNoteIds : RestoreElsewhere(n)

SpecPurge == InitTrash /\ [][NextPurge]_vars

\* The media of the notes: uploads and removals in the editor, and
\* permanentlyDelete on the Trash page.
NextMedia ==
    \/ MountTrash
    \/ \E n \in AllNoteIds : SoftDelete(n)
    \/ \E n \in AllNoteIds, type \in {"image", "video"} : UploadFile(n, type)
    \/ InsertMedia
    \/ \E m \in MediaIds : HandleRemoveMedia(m)
    \/ \E n \in AllNoteIds : DeleteSelectMedia(n)
    \/ DeleteRemoveBlob
    \/ DeleteNote

SpecMedia == InitTrash /\ [][NextMedia]_vars

\* get-shared-note, invoked with any pair of a note and a link, while the
\* owner moves notes to the trash and switches links off and on.
NextFetch ==
    \/ \E noteId \in AllNoteIds \cup {""}, sharedNoteId \in AllLinkIds \cup {""} :
          DirectRequest(noteId, sharedNoteId)
    \/ FetchValidate("direct")
    \/ FetchReadNote("direct")
    \/ FetchCount("direct")
    \/ \E l \in AllLinkIds : ToggleElsewhere(l)
    \/ \E n \in AllNoteIds : SoftDelete(n)

SpecFetch == InitTrash /\ [][NextFetch]_vars

\* The SharedNote page and the links of the note n1, every backend call of
\* the page returning sooner or later, with data or with an error.
NextResolve ==
    \/ \E n \in NoteIds : CreateShareLink(n)
    \/ \E l \in LinkIds : ToggleLinkStatus(l)
    \/ Tick
    \/ \E l \in LinkIds : Visit(Token(l))
    \/ \E owner \in BOOLEAN : LoadSharedNote(owner)
    \/ \E p \in Passwords \cup {""} : TypePassword(p)
    \/ \E byButton \in BOOLEAN : HandleUnlock(byButton)
    \/ \E c \in PageCallers : FetchValidate(c)
    \/ \E c \in PageCallers : FetchReadNote(c)
    \/ \E c \in PageCallers : FetchCount(c)

SpecResolve ==
    /\ InitShare
    /\ [][NextResolve]_vars
    /\ WF_vars(\E owner \in BOOLEAN : LoadSharedNote(owner))
    /\ \A c \in PageCallers :
         /\ WF_vars(FetchValidate(c))
         /\ WF_vars(FetchReadNote(c))
         /\ WF_vars(FetchCount(c))

\* The TagManager of two users, one note each, no tag yet.
InitTags ==
    /\ notes = [n \in NoteIds \cup OtherNoteIds |->
                  [exists |-> TRUE, title |-> NULL, content |-> "c0",
                   deleted_at |-> NoTime, updated_at |-> 0]]
    /\ versions = [n \in NoteIds \cup OtherNoteIds |-> <<>>]
    /\ sess = [s \in Sessions |-> InitSession]
    /\ timers = [s \in Sessions |-> {}]
    /\ hist = [InitHist EXCEPT !.created = [n \in NoteIds |-> "c0"]]
    /\ InitShareVars
    /\ InitTrashVars

NextTags ==
    \/ \E n \in NoteIds \cup OtherNoteIds, newTagName \in TagNames : CreateTag(n, newTagName)
    \/ \E n \in NoteIds \cup OtherNoteIds, t \in TagIds : AddTagToNote(n, t)
    \/ \E n \in NoteIds \cup OtherNoteIds, t \in TagIds : RemoveTagFromNote(n, t)

SpecTags == InitTags /\ [][NextTags]_vars

----------------------------------------------------------------------------
(* Properties of the editor and the version log *)

\* C1 (as claimed): every update the editor commits to an existing note, by
\* a manual save or by an auto-save flush, adds exactly one note_versions row,
\* and the newest row holds the content stored just before the update.
C1_EveryUpdateSnapshots ==
    [][\A s \in Sessions :
         /\ SaveUpdateCommit(s) =>
              LET n == sess[s].save.noteId
              IN /\ sess[s].save.insert = "ok"
                 /\ versions[n] # <<>>
                 /\ versions[n][Len(versions[n])].content = notes[n].content
         /\ \A t \in timers[s] :
              (AutoSaveCommit(s, t) /\ notes[t.noteId].exists) =>
                 LET n == t.noteId
                 IN /\ Len(versions'[n]) = Len(versions[n]) + 1
                    /\ versions'[n][Len(versions'[n])].content = notes[n].content
      ]_vars

\* C2 (as claimed): a note is created with content c0, its content is changed
\* to c1 in the editor and Save is pressed; when that first save completes,
\* with every backend call successful, whether or not the auto-save timer
\* fired in between, the history is exactly one entry, version_number 1 with
\* content c0, and the stored content is c1.
C2_FirstSaveKeepsOriginal ==
    [][\A s \in Sessions :
         LET sv == sess[s].save
             n  == sv.noteId
         IN (/\ SaveUpdateCommit(s)
             /\ ~hist.failed /\ ~hist.overlapped
             /\ hist.saved[n] = 0
             /\ OrNull(sv.content) # hist.created[n])
            => /\ Len(versions'[n]) = 1
               /\ versions'[n][1].version_number = 1
               /\ versions'[n][1].content = hist.created[n]
               /\ notes'[n].content = OrNull(sv.content)
      ]_vars

\* C3: while manual saves do not overlap and every backend call succeeds, the
\* version_number values of a note are 1, 2, ..., n in insertion order, and
\* n is the number of manual saves once no save is in progress.
C3_SequentialNumbers ==
    \A n \in NoteIds :
        (~hist.failed /\ ~hist.overlapped) =>
            /\ \A i \in 1..Len(versions[n]) : versions[n][i].version_number = i
            /\ InFlight(n) = {} => Len(versions[n]) = hist.saved[n]

\* two sequential, successful manual saves have been made
C3_Witness ==
    /\ ~hist.failed /\ ~hist.overlapped
    /\ hist.saved["n1"] = 2
    /\ Len(versions["n1"]) = 2
    /\ versions["n1"][2].version_number = 2

\* C22: when a manual save reads the highest version_number of a note while
\* another save of that note awaits its insert and no version was inserted
\* since that one read, with no failed call, the two hold the same next number;
\* and the insert of a save whose number a version of the note already has is
\* accepted when no backend call has failed: the row is appended with that
\* number.
C22_OverlapDuplicatesNumber ==
    [][\A s \in Sessions :
         LET sv == sess[s].save
             n == sv.noteId
         IN /\ \A o \in Sessions \ {s} :
                 (/\ SaveReadMax(s)
                  /\ ~hist'.failed
                  /\ sess[o].save.pc = "insert" /\ sess[o].save.noteId = n
                  /\ sess[o].save.nextVersionNumber = MaxVersionNumber(versions[n]) + 1)
                 => sess'[s].save.nextVersionNumber = sess[o].save.nextVersionNumber
            /\ (/\ SaveInsertVersion(s)
                /\ ~hist'.failed
                /\ notes[n].exists
                /\ \E i \in 1..Len(versions[n]) :
                       versions[n][i].version_number = sv.nextVersionNumber)
               => /\ Len(versions'[n]) = Len(versions[n]) + 1
                  /\ versions'[n][Len(versions'[n])].version_number = sv.nextVersionNumber
                  /\ sess'[s].save.insert = "ok"]_vars

\* two overlapping manual saves, every call of which succeeded, have both
\* inserted version 1 of the note
C22_Witness ==
    /\ ~hist.failed /\ hist.overlapped
    /\ Len(versions["n1"]) = 2
    /\ versions["n1"][1].version_number = 1
    /\ versions["n1"][2].version_number = 1

\* C4 (as claimed): when the note_versions insert of a manual save fails, the
\* save is aborted: the notes row is not changed and the editor shows the
\* error (it stays open, without the success message).
C4_FailedInsertAborts ==
    [][\A s \in Sessions :
         (/\ sess[s].save.pc = "update"
          /\ sess[s].save.insert = "error"
          /\ sess'[s].save.pc # "update")
         => /\ notes' = notes
            /\ sess'[s] = SaveFailed(s)
      ]_vars

C15_CloseCancelsFlush ==
    [][\A s \in Sessions :
         /\ (sess[s].open /\ ~sess'[s].open) => timers'[s] = {}
         /\ \A t \in timers[s] :
              (AutoSaveCommit(s, t) /\ notes' # notes) => sess[s].open]_vars

----------------------------------------------------------------------------
(* Properties of the share links *)

\* C29 (as claimed): no auto-save writes the note while a manual save of the
\* same editor is under way, from its start (loading = true) to its last
\* backend call.
C29_NoFlushDuringSave ==
    [][\A s \in Sessions : \A t \in timers[s] :
         AutoSaveCommit(s, t) => (~sess[s].loading /\ sess[s].save.pc = "idle")
      ]_vars

\* C5: a link whose expires_at was in the past when get-shared-note was
\* requested never yields the note, whoever made the request: loadSharedNote,
\* handleUnlock (the link may have expired since the token lookup) or a caller
\* outside the page; and loadSharedNote, finding the link expired, ends in
\* Error without a request.  is_active plays no part.
C5_ExpiredNeverYields ==
    [][/\ \A c \in Callers :
            LET l == calls[c].sharedNoteId
            IN (calls[c].pc = "count" /\ calls'[c].pc = "idle") =>
                  ~(/\ links[l].expires_at # NoTime
                    /\ links[l].expires_at[1] < calls[c].at)
       /\ \A l \in LinkIds :
            (/\ res.pc = "lookup" /\ res'.pc = "idle"
             /\ res.token = links[l].share_token
             /\ links[l].expires_at # NoTime /\ links[l].expires_at[1] < now)
            => /\ ResolverState(res') = "Error"
               /\ calls' = calls
      ]_vars

\* an active link has expired, and a caller outside the page that requested
\* get-shared-note for it got the answer 410, without the note
C5_Witness ==
    \E l \in LinkIds :
        /\ links[l].exists /\ links[l].is_active
        /\ links[l].expires_at # NoTime /\ links[l].expires_at[1] < now
        /\ direct.status = "410" /\ ~direct.note.found

C7_CorrectPasswordResolves ==
    [][/\ \A byButton \in BOOLEAN :
            (/\ res.password # ""
             /\ Hash(res.password) = res.sharedNote.password_hash
             /\ HandleUnlock(byButton))
            => \E c \in Runs : calls[c].pc = "idle" /\ calls'[c].pc = "validate"
       /\ \A c \in Runs :
            (calls[c].pc # "idle" /\ calls'[c].pc = "idle") =>
               IF calls[c].pc = "count"
               THEN /\ ResolverState(res') = "Ready"
                    /\ res'.note.found
                    /\ ~res'.requiresPassword
                    /\ ~res'.passwordError
               ELSE ResolverState(res') = "Error"
      ]_vars

\* C8 (as claimed): get-shared-note yields the note of a link that has a
\* password_hash only to a caller that has supplied the password of the link.
C8_PasswordGatesFetch ==
    [][\A c \in Callers :
         LET l == calls[c].sharedNoteId
         IN (/\ calls[c].pc = "count" /\ calls'[c].pc = "idle"
             /\ links[l].password_hash # NoHash)
            => Hash(calls[c].password) = links[l].password_hash
      ]_vars

\* C9 (as claimed): a successful get-shared-note during which no other
\* invocation was under way raises the stored view_count of its link by
\* exactly 1.
C9_EachViewCounts ==
    [][\A c \in Callers :
         LET l == calls[c].sharedNoteId
         IN (/\ calls[c].pc = "count" /\ calls'[c].pc = "idle"
             /\ calls[c].alone
             /\ links[l].exists)
            => links'[l].view_count = links[l].view_count + 1
      ]_vars

\* C10: the view_count of a link changes only in the step in which
\* get-shared-note, invoked for that link, answers with the note: the token
\* lookup, a submitted password, a rejected request (400, 404, 410) and the
\* owner's list and toggle leave it as it is.
C10_OnlyFetchChangesViews ==
    [][\A l \in LinkIds :
         (/\ links[l].exists /\ links'[l].exists
          /\ links'[l].view_count # links[l].view_count)
         => \E c \in Callers :
               /\ calls[c].pc = "count" /\ calls'[c].pc = "idle"
               /\ calls[c].sharedNoteId = l
      ]_vars

\* one view was counted, the owner then deactivated the link, and a request
\* of get-shared-note was rejected: the count is still 1
C10_Witness ==
    \E l \in LinkIds :
        /\ links[l].exists /\ ~links[l].is_active
        /\ links[l].view_count = 1
        /\ dlg[l] = "inactive"
        /\ direct.status = "404"
        /\ \A c \in Callers : calls[c].pc = "idle"

\* C23: the view_count of a link is never above the number of responses
\* with the note given for it; the response raises that number by 1, and
\* its update, when it succeeds, stores the count the invocation read at its
\* start plus 1, whatever the stored count is by then: an invocation that read
\* the count before another one wrote it leaves the stored count as it is.
C23_OverlapUnderCounts ==
    /\ [](\A l \in LinkIds : links[l].exists => links[l].view_count <= hist.served[l])
    /\ [][\A c \in Callers :
            LET l == calls[c].sharedNoteId
            IN (FetchCount(c) /\ links[l].exists)
               => /\ hist'.served[l] = hist.served[l] + 1
                  /\ \/ links'[l].view_count = calls[c].view_count + 1
                     \/ links'[l].view_count = links[l].view_count
                  /\ calls[c].view_count < links[l].view_count
                       => links'[l].view_count <= links[l].view_count]_vars

\* two invocations overlap: one has answered with the note and stored the
\* count 1, the other one read the count 0 before that and is about to store
\* its own count
C23_Witness ==
    \E l \in LinkIds, c \in Callers :
        /\ links[l].exists
        /\ hist.served[l] = 1
        /\ links[l].view_count = 1
        /\ calls[c].pc = "count"
        /\ calls[c].sharedNoteId = l
        /\ calls[c].view_count = 0

\* C24 (as claimed): when get-shared-note answers the page with 404, 410 or
\* 500, the error the page then shows is not the one it would show for
\* either of the other two answers.
C24_DistinctFetchErrors ==
    [][\A c \in PageCallers :
         (/\ calls[c].pc # "idle" /\ calls'[c].pc = "idle"
          /\ res'.last \in {"404", "410", "500"})
         => /\ res'.error # NULL
            /\ \A status \in {"404", "410", "500"} \ {res'.last} :
                  res'.error # LoadNoteContent(res, status, NoData).error
      ]_vars

\* C25 (as claimed): unless the page is opened again, it goes from Loading
\* to Error, PasswordRequired or Ready only, and from PasswordRequired to
\* PasswordRequired, Ready or Error only; and once it is in Error or in Ready
\* its state does not change, it makes no request of get-shared-note and no
\* invocation made by it counts a view.
C25_ErrorAndReadyTerminal ==
    [][(~ \E token \in {Token(l) : l \in LinkIds} : Visit(token))
       => /\ ResolverState(res) = "Loading"
             => ResolverState(res') \in {"Loading", "Error", "PasswordRequired", "Ready"}
          /\ ResolverState(res) = "PasswordRequired"
             => ResolverState(res') \in {"PasswordRequired", "Ready", "Error"}
          /\ ResolverState(res) \in {"Error", "Ready"}
             => /\ res' = res
                /\ \A c \in PageCallers :
                     /\ calls[c].pc = "idle" => calls'[c].pc = "idle"
                     /\ ~(calls[c].pc = "count" /\ calls'[c].pc = "idle")
      ]_vars

\* C28: an invocation of get-shared-note goes past the select of the link
\* only if sharedNoteId is a row of shared_notes that is active and whose
\* note_id is the noteId of the request; the note it then reads and answers
\* with is the note of that link; a caller gets a note from no other answer;
\* and a request without noteId or without sharedNoteId is answered 400
\* and changes nothing else.
C28_LinkBoundToNote ==
    /\ [](\A c \in Callers :
            calls[c].pc = "count"
            => /\ links[calls[c].sharedNoteId].note_id = calls[c].noteId
               /\ calls[c].note.found
               /\ calls[c].note.content = notes[links[calls[c].sharedNoteId].note_id].content)
    /\ [][/\ \A c \in Callers :
              LET l == calls[c].sharedNoteId
                  n == calls[c].noteId
              IN /\ (calls[c].pc = "validate" /\ calls'[c].pc = "readNote")
                    => /\ l \in DOMAIN links
                       /\ links[l].exists /\ links[l].is_active
                       /\ links[l].note_id = n
                 /\ (calls[c].pc = "readNote" /\ calls'[c].pc = "count")
                    => /\ notes[n].exists
                       /\ calls'[c].note.content = notes[n].content
          /\ (direct' # direct /\ direct'.note.found)
             => /\ calls["direct"].pc = "count"
                /\ direct' = [status |-> "200", note |-> calls["direct"].note]
          /\ \A noteId \in AllNoteIds \cup {""}, sharedNoteId \in AllLinkIds \cup {""} :
               (DirectRequest(noteId, sharedNoteId) /\ (noteId = "" \/ sharedNoteId = ""))
               => /\ direct' = [status |-> "400", note |-> NoData]
                  /\ UNCHANGED <<notes, links, calls, hist, res>>]_vars

\* a request made with the note n1 and the link of the note n2, both there
\* and the link active, is at the select of the link, after a request with
\* the link of n1 has been answered with the note
C28_Witness ==
    /\ calls["direct"].pc = "validate"
    /\ calls["direct"].noteId = "n1"
    /\ calls["direct"].sharedNoteId = "l2"
    /\ links["l2"].exists /\ links["l2"].is_active /\ links["l2"].note_id = "n2"
    /\ notes["n1"].exists /\ notes["n2"].exists
    /\ hist.served["l1"] = 1

\* C30: when every backend call of the page returns, a page that is Loading
\* comes to show the error, the password form or the note; and the page never
\* renders nothing: once mounted it is Loading, or in Error, or asks for the
\* password, or shows the note.
C30_ResolverLeavesLoading ==
    /\ [](res.mounted
            => ResolverState(res) \in {"Loading", "Error", "PasswordRequired", "Ready"})
    /\ [](~(/\ res.mounted /\ ~res.loading /\ res.error = NULL
             /\ ~res.requiresPassword /\ ~res.note.found))
    /\ (ResolverState(res) = "Loading")
          ~> (ResolverState(res) \in {"Error", "PasswordRequired", "Ready"})

\* the page of a link without password has left Loading with the note
C30_Witness ==
    /\ ResolverState(res) = "Ready"
    /\ res.last = "200"
    /\ res.sharedNote.password_hash = NoHash
    /\ \A c \in PageCallers : calls[c].pc = "idle"

\* C16: createShareLink, when its insert succeeds, adds exactly one row to
\* shared_notes and changes no other: the row is for the note of the dialog,
\* is_active is true, view_count is 0, password_hash is the digest of the
\* password when password protection is on and the password is not empty and
\* null otherwise, expires_at is the time of the call plus the days of the
\* dialog when an expiration is asked for and null otherwise; when the insert
\* fails no row is added and an error is shown.
C16_CreateInsertsOneRow ==
    [][\A n \in NoteIds :
         /\ \A usePassword \in BOOLEAN, password \in DialogPasswords,
               useExpiration \in BOOLEAN, expirationDays \in Days :
              InsertShareLink(n, usePassword, password, useExpiration, expirationDays)
                => \E l \in LinkIds :
                     /\ ~links[l].exists /\ links'[l].exists
                     /\ \A k \in LinkIds \ {l} : links'[k] = links[k]
                     /\ links'[l].note_id = n
                     /\ links'[l].is_active /\ links'[l].view_count = 0
                     /\ IF usePassword /\ password # ""
                        THEN links'[l].password_hash = Hash(password)
                        ELSE links'[l].password_hash = NoHash
                     /\ IF useExpiration
                        THEN links'[l].expires_at = <<now + expirationDays>>
                        ELSE links'[l].expires_at = NoTime
         /\ CreateShareLinkFailed(n)
              => links' = links /\ toast' = "Failed to create share link"]_vars

\* a link made with a password and an expiration, not yet viewed, after an
\* attempt whose insert failed
C16_Witness ==
    \E l \in LinkIds :
        /\ links[l].exists /\ links[l].is_active /\ links[l].view_count = 0
        /\ links[l].password_hash = Hash(OwnerPassword)
        /\ links[l].expires_at = <<now + 1>>
        /\ dlg[l] = "active"
        /\ toast = "Failed to create share link"

\* C17: toggleLinkStatus negates the stored is_active: the value stored after
\* the update is the negation of the value stored just before it, whether or
\* not the list of the dialog has been reloaded since the last toggle, here
\* or in another session.
C17_ToggleNegatesStored ==
    [][\A i \in 1..MaxToggles :
         LET l == toggling.runs[i][1]
         IN (ToggleUpdate(i) /\ links[l].exists)
               => links'[l].is_active = ~links[l].is_active]_vars

\* C18: once deleteLink has removed the row of a link, the row stays away and
\* nothing of it changes; a token lookup of the page for its token ends in
\* Error without a request of the note; and an invocation of get-shared-note
\* whose select of the link is made after the removal answers 404 and changes
\* no row, whoever made the request: loadSharedNote, a caller outside the
\* page, or handleUnlock of a page that holds the record of the link.
C18_RevokedNeverResolves ==
    [][\A l \in LinkIds :
         (links[l].id = l /\ ~links[l].exists) =>
            /\ links'[l] = links[l]
            /\ (res.pc = "lookup" /\ res'.pc = "idle" /\ res.token = Token(l))
                  => ResolverState(res') = "Error" /\ calls' = calls
            /\ \A c \in Callers :
                 (/\ calls[c].pc = "validate" /\ calls'[c].pc # "validate"
                  /\ calls[c].sharedNoteId = l)
                 => /\ calls'[c].pc = "idle"
                    /\ links' = links
                    /\ c = "direct" => direct' = [status |-> "404", note |-> NoData]
                    /\ c # "direct" => res'.last = "404" /\ res'.note = res.note]_vars

\* the page holds the record of a protected link and shows the password form;
\* the link has been deleted, and the request handleUnlock made for it is at
\* the select of the link
C18_Witness ==
    \E l \in LinkIds :
        /\ links[l].id = l /\ ~links[l].exists
        /\ res.requiresPassword /\ res.sharedNote.id = l /\ ~res.note.found
        /\ \E c \in Runs : calls[c].pc = "validate" /\ calls[c].sharedNoteId = l

----------------------------------------------------------------------------
(* Properties of the trash *)

C13_DeletedNoteNotServed ==
    [][\A c \in Callers :
         LET n == calls[c].noteId
         IN (calls[c].pc = "readNote" /\ calls'[c].pc # "readNote") =>
              IF notes[n].deleted_at # NoTime
              THEN /\ calls'[c].pc = "idle"
                   /\ links' = links
                   /\ c = "direct" => direct' = [status |-> "404", note |-> NoData]
                   /\ c # "direct" => res'.last = "404" /\ res'.note = res.note
              ELSE \/ calls'[c].pc = "idle" /\ links' = links
                   \/ /\ calls'[c].pc = "count"
                      /\ calls'[c].note = [found |-> TRUE, title |-> notes[n].title,
                                           content |-> notes[n].content]]_vars

\* the note is in the trash and its link is active and not expired: a caller
\* outside the page asked for the note through the link after the soft
\* delete, the link passed the checks of the function, and the select of the
\* note is next
C13_Witness ==
    \E l \in LinkIds :
        /\ links[l].exists /\ links[l].is_active /\ ~Expired(links[l], now)
        /\ notes[links[l].note_id].deleted_at # NoTime
        /\ calls["direct"].pc = "readNote"
        /\ calls["direct"].sharedNoteId = l
        /\ calls["direct"].at > notes[links[l].note_id].deleted_at[1]

\* C12: a reload of the active list (the mount of the Index page, the end of
\* a soft delete) leaves in it exactly the notes whose deleted_at is null, a
\* reload of the trash list (the mount of the Trash page, the end of a
\* restore) exactly the notes whose deleted_at is set, and the two reloaded
\* lists share no note.
C12_ListsFollowDeletedAt ==
    [][/\ (MountIndex \/ \E n \in AllNoteIds : SoftDelete(n))
           => index' = {n \in AllNoteIds : notes'[n].exists /\ notes'[n].deleted_at = NoTime}
       /\ (MountTrash \/ \E n \in AllNoteIds : RestoreNote(n))
           => trash' = {n \in AllNoteIds : notes'[n].exists /\ notes'[n].deleted_at # NoTime}
       /\ LoadNotes(notes') \cap LoadDeletedNotes(notes') = {}]_vars

\* C19: a permanentlyDelete whose delete removes the note row leaves no
\* note_media row, no version, no note_tags pair and no shared_notes row of
\* that note, the removal of the blob of every note_media row the note had was
\* issued before, and the rows of the other notes are what they were.
C19_PermanentDeleteRemovesAll ==
    [][\A n \in AllNoteIds :
        (DeleteNote /\ pd.noteId = n /\ notes[n].exists /\ ~notes'[n].exists)
        => /\ MediaOf(media', n) = {}
           /\ versions'[n] = <<>>
           /\ \A t \in TagIds : note_tags'[<<n, t>>] = 0
           /\ \A l \in AllLinkIds : ~(links'[l].exists /\ links'[l].note_id = n)
           /\ \A m \in MediaOf(media, n) : Blob(media[m]) \in issued
           /\ \A o \in AllNoteIds \ {n} :
                 /\ notes'[o] = notes[o]
                 /\ versions'[o] = versions[o]
                 /\ MediaOf(media', o) = MediaOf(media, o)
                 /\ \A t \in TagIds : note_tags'[<<o, t>>] = note_tags[<<o, t>>]
           /\ \A l \in AllLinkIds : links[l].note_id # n => links'[l] = links[l]]_vars

\* C26 (as claimed): permanentlyDelete goes on to the delete of the note
\* whether or not a storage.remove of its loop removed the blob; emptyTrash
\* goes on to the next note of its list whether or not the delete of a note
\* succeeded; and a note that emptyTrash removes has deleted_at set.
C26_BestEffortPerItem ==
    [][/\ DeleteRemoveBlob
          => pd'.pc = "remove" /\ pd'.noteId = pd.noteId
       /\ (pd.pc = "remove" /\ pd.media = {}) => ENABLED DeleteNote
       /\ (DeleteNote /\ pd.rest # {})
          => pd'.pc = "select" /\ pd'.rest = pd.rest
       /\ \A n \in AllNoteIds :
            (DeleteNote /\ pd.all /\ pd.noteId = n /\ notes[n].exists /\ ~notes'[n].exists)
            => notes[n].deleted_at # NoTime]_vars

\* C27 (as claimed): the insert of handleFileUpload adds a note_media row
\* only for a blob that is in storage, and whenever no permanentlyDelete is
\* under way the blob of every note_media row is in storage.
C27_MediaRowHasBlob ==
    /\ [][(InsertMedia /\ media'[up.file].exists)
            => Blob(media'[up.file]) \in storage']_vars
    /\ [](pd.pc = "idle"
            => \A m \in MediaIds : media[m].exists => Blob(media[m]) \in storage)

\* C20: createTag with a name (trimmed) that a tag of the same owner already
\* has adds no row to tags and none to note_tags, and shows the error of the
\* unique constraint; and no two tags of an owner have the same name.
C20_DuplicateTagRejected ==
    /\ [](\A t1, t2 \in TagIds :
            (/\ tags[t1].exists /\ tags[t2].exists
             /\ tags[t1].user_id = tags[t2].user_id
             /\ tags[t1].name = tags[t2].name) => t1 = t2)
    /\ [][\A n \in NoteIds \cup OtherNoteIds, newTagName \in TagNames :
            (/\ CreateTag(n, newTagName)
             /\ \E t \in TagIds : /\ tags[t].exists
                                   /\ tags[t].user_id = NoteOwner(n)
                                   /\ tags[t].name = Trim(newTagName))
            => /\ tags' = tags
               /\ note_tags' = note_tags
               /\ toast' = DuplicateKey]_vars

\* each of the two users has a tag named work, attached to the note of the
\* user, and a second createTag with that name was refused
C20_Witness ==
    /\ \E t1, t2 \in TagIds :
         /\ tags[t1].exists /\ tags[t1].user_id = "ua" /\ tags[t1].name = "work"
         /\ tags[t2].exists /\ tags[t2].user_id = "ub" /\ tags[t2].name = "work"
         /\ note_tags[<<"n1", t1>>] = 1 /\ note_tags[<<"n3", t2>>] = 1
    /\ Cardinality({t \in TagIds : tags[t].exists}) = 2
    /\ toast = DuplicateKey

\* C21: no pair of a note and a tag has more than one row in note_tags, and
\* addTagToNote of a tag the note already has changes no row of note_tags and
\* shows no error.
C21_AttachIdempotent ==
    /\ [](\A a \in DOMAIN note_tags : note_tags[a] <= 1)
    /\ [][\A n \in NoteIds \cup OtherNoteIds, t \in TagIds :
            (AddTagToNote(n, t) /\ note_tags[<<n, t>>] > 0)
            => note_tags' = note_tags /\ toast' = toast]_vars

\* a tag of the first user that is on the note of that user, so that the
\* TagManager's addTagToNote of it is a repeated attach, and no error on show
C21_Witness ==
    /\ \E t \in TagIds :
         /\ tags[t].exists /\ tags[t].user_id = "ua"
         /\ note_tags[<<"n1", t>>] = 1
         /\ ENABLED AddTagToNote("n1", t)
    /\ toast = ""

====
